---- MODULE Spec2Model ----
(***************************************************************************)
(* schedsim: a discrete-event simulator of request scheduling policies.    *)
(* The model covers the blocks package (queues, requests, processors, the  *)
(* statistics drain) and the single-queue topology that wires them.  The   *)
(* engine package (virtual clock, event loop, actor primitives) is not     *)
(* part of the sources at hand and is modelled from its specification.     *)
(*                                                                         *)
(* Every state of the model is a suspension point: one action is one       *)
(* uninterrupted execution slice of one actor, from its resumption by the  *)
(* event loop to its next Wait / ReadInQueue / WaitInterruptible.          *)
(*                                                                         *)
(* float64 values are modelled as rationals <<num, den>> in lowest terms   *)
(* with den > 0.  The variable floatBits chooses the arithmetic: with 0    *)
(* every operation is exact; with a positive value every operation rounds  *)
(* its exact result to a binary significand of that many bits, to nearest  *)
(* with ties to even, as float64 does with its 53 bits.                    *)
(***************************************************************************)
EXTENDS Integers, Sequences, FiniteSets, TLC

----------------------------------------------------------------------------
(* Bounds of the model *)

MaxReqs == 3        \* requests the generator creates in one run
MaxService == 2     \* largest sampled service time
MaxGap == 1         \* largest sampled interarrival time
MaxOps == 5         \* operations applied to a stand-alone queue
MaxKey == 2         \* largest comparison key put on a stand-alone queue
MaxSolo == 25       \* largest service time of a request that runs alone
MaxSamples == 3     \* requests terminated at a stand-alone drain
BucketCount == 3    \* buckets of the histogram (bUCKETCOUNT, scaled down)

\* The configurations of SingleQueue that are explored
Quantums == {1, 2}
CtxCosts == {0, 1}
CoreCounts == {1, 2}

\* The configurations of the bounded-buffer pipeline that are explored
BufSizes == {0, 1}
Creators == {"SimpleReqCreator", "ColoredReqCreator"}

\* The values of rand.Int() % 2
Colors == {0, 1}

\* The runs with fixed samples: a long request followed at once by a short
\* one, and one request on its own
Scripts == {<<100, 1>>} \cup {<<s>> : s \in 1..MaxSolo}
ScriptQuantums == {4, 10}

\* The significand widths explored for the rounding arithmetic
FloatWidths == {2, 3, 4}

\* The generator types that are explored: the CDF generator and an unknown one
GenTypes == {5, 6}

----------------------------------------------------------------------------
(* float64 arithmetic *)

VARIABLE floatBits  \* width of the significand of the arithmetic; 0: exact

RECURSIVE Gcd(_, _)
Gcd(a, b) == IF b = 0 THEN a ELSE Gcd(b, a % b)

Abs(x) == IF x < 0 THEN -x ELSE x

Lowest(n, d) ==
    LET g == Gcd(Abs(n), d)
    IN  <<n \div g, d \div g>>

RECURSIVE Pow2(_)
Pow2(k) == IF k = 0 THEN 1 ELSE 2 * Pow2(k - 1)

\* a / d > 0 as m * 2^e with 2^(bits-1) <= m < 2^bits, m rounded to nearest,
\* ties to even
RECURSIVE RoundSignificand(_, _, _, _)
RoundSignificand(a, d, e, bits) ==
    IF a < Pow2(bits - 1) * d
    THEN RoundSignificand(2 * a, d, e - 1, bits)
    ELSE IF a >= Pow2(bits) * d
         THEN RoundSignificand(a, 2 * d, e + 1, bits)
         ELSE LET q == a \div d
                  r == a % d
                  m == IF 2 * r > d \/ (2 * r = d /\ q % 2 = 1) THEN q + 1 ELSE q
              IN  IF e >= 0 THEN <<m * Pow2(e), 1>> ELSE Lowest(m, Pow2(-e))

\* n / d rounded to a significand of bits bits
Round(n, d, bits) ==
    IF n = 0
    THEN <<0, 1>>
    ELSE LET x == RoundSignificand(Abs(n), d, 0, bits)
         IN  IF n < 0 THEN <<-x[1], x[2]>> ELSE x

Norm(n, d) ==
    IF floatBits = 0 THEN Lowest(n, d) ELSE Round(n, d, floatBits)

R(n) == <<n, 1>>

RAdd(x, y) == Norm(x[1] * y[2] + y[1] * x[2], x[2] * y[2])

RSub(x, y) == Norm(x[1] * y[2] - y[1] * x[2], x[2] * y[2])

RMul(x, y) == Norm(x[1] * y[1], x[2] * y[2])

\* x / y for y > 0
RDiv(x, y) == Norm(x[1] * y[2], x[2] * y[1])

RLt(x, y) == x[1] * y[2] < y[1] * x[2]

RLe(x, y) == x[1] * y[2] <= y[1] * x[2]

----------------------------------------------------------------------------
VARIABLES
    topo,       \* main's topo: 0 single-queue, 2 bounded-queue
    genType,    \* SingleQueue's genType
    script,     \* the service times the generator samples, when they are fixed
    procType,   \* SingleQueue's procType: 0 RTC, 1 PS, 2 TS, 3 SRPT-TS
    cores,      \* SingleQueue's cores
    quantum,    \* SingleQueue's quantum
    ctxCost,    \* SingleQueue's ctxCost
    bufSize,    \* BoundedProcessor.bufSize
    creator,    \* the generator's ReqCreator
    now,        \* engine: the virtual clock
    wakeups,    \* engine: pending wakeups, earliest first, FIFO among equals
    blocked,    \* engine: actors suspended on the empty input queue, oldest first
    reqs,       \* the requests created so far: id -> Request
    created,    \* number of requests created
    queue,      \* the input queue q: a list (Queue) or a heap array (PQueue)
    outq,       \* the output queue of the BoundedProcessor
    outBlocked, \* engine: actors suspended on the empty output queue
    held,       \* per processor: the local variable req of Run (0: none)
    pc,         \* per processor: which Wait of Run it is suspended in
    ps,         \* the PSProcessor's fields and the local d of its Run
    factor,     \* per bounded processor: the local variable factor of Run
    items,      \* AllKeeper.items
    panicked,   \* a panic ended the run
    since,      \* history: per processor, when it started its current Wait
    consumed,   \* history: time the TS processors waited, less the context cost
    enqLog,     \* history: requests in the order they were written to q
    deqLog,     \* history: requests in the order they were handed to a reader
    done,       \* history: requests passed to TerminateReq
    peak,       \* history: largest PSProcessor.count at a suspension point
    keeper,     \* the RequestDrain of the run: "AllKeeper" or "BookKeeper"
    hdr,        \* BookKeeper.hdr
    report      \* what PrintStats computed

vars == <<floatBits, topo, genType, script, procType, cores, quantum, ctxCost, bufSize,
          creator, now, wakeups, blocked, reqs, created, queue, outq, outBlocked,
          held, pc, ps, factor, items, panicked, since, consumed, enqLog, deqLog,
          done, peak, keeper, hdr, report>>

\* The drain's choice and what only the stand-alone drain changes
stats == <<keeper, hdr, report>>

config == <<floatBits, topo, genType, script, procType, cores, quantum, ctxCost, bufSize,
            creator>>

Gen == 0                      \* the generator's actor id; processors are 1..cores
Procs == 1..cores
Ids == 1..created

----------------------------------------------------------------------------
(* Request *)

\* NewRequest returning a value that has no comparison key
NewRequest_Keyless(serviceTime, t) ==
    [InitTime |-> t, ServiceTime |-> R(serviceTime),
     OriginalServiceTime |-> R(serviceTime), kind |-> "Opaque"]

\* SimpleReqCreator.NewRequest
NewRequest(serviceTime, t) ==
    [InitTime |-> t, ServiceTime |-> R(serviceTime),
     OriginalServiceTime |-> R(serviceTime), kind |-> "Request"]

\* ColoredReqCreator.NewRequest; color is rand.Int() % 2
NewColoredReq(serviceTime, color, t) ==
    [InitTime |-> t, ServiceTime |-> R(serviceTime),
     OriginalServiceTime |-> R(serviceTime), kind |-> "ColoredReq",
     color |-> color]

\* ReqCreator.NewRequest of the creator c
CreatorNewRequest(c, serviceTime, color, t) ==
    IF c = "ColoredReqCreator"
    THEN NewColoredReq(serviceTime, color, t)
    ELSE NewRequest(serviceTime, t)

GetDelay(r, t) == RSub(t, r.InitTime)

SubServiceTime(r, t) == [r EXCEPT !.ServiceTime = RSub(r.ServiceTime, t)]

\* Whether a value of this dynamic type implements blocks.Comparable
ImplementsComparable(r) == r.kind = "Request"

GetCmpVal(r) == r.ServiceTime

GetInitTime(r) == r.InitTime

----------------------------------------------------------------------------
(* Queue: the FIFO queue over container/list *)

QueueEnqueue(q, el) == Append(q, el)

\* QueueDequeue taking the back of the list
QueueDequeue_Back(q) ==
    IF q = <<>>
    THEN [panic |-> TRUE, el |-> 0, q |-> q]
    ELSE [panic |-> FALSE, el |-> q[Len(q)], q |-> SubSeq(q, 1, Len(q) - 1)]

\* Front() of an empty list is nil and Remove(nil) dereferences it: a panic
QueueDequeue(q) ==
    IF q = <<>>
    THEN [panic |-> TRUE, el |-> 0, q |-> q]
    ELSE [panic |-> FALSE, el |-> Head(q), q |-> Tail(q)]

QueueLen(q) == Len(q)

----------------------------------------------------------------------------
(* PQueue: container/heap over the slice pQueue; index i is h[i + 1] *)

\* Less without the tie-break on the arrival time
Less_NoTieBreak(rq, h, i, j) ==
    RLt(GetCmpVal(rq[h[i + 1]]), GetCmpVal(rq[h[j + 1]]))

\* Less with the comparison of the keys inverted
Less_Inverted(rq, h, i, j) ==
    LET a == rq[h[i + 1]]
        b == rq[h[j + 1]]
    IN  IF GetCmpVal(a) = GetCmpVal(b)
        THEN RLt(GetInitTime(a), GetInitTime(b))
        ELSE RLt(GetCmpVal(b), GetCmpVal(a))

Less(rq, h, i, j) ==
    LET a == rq[h[i + 1]]
        b == rq[h[j + 1]]
    IN  IF GetCmpVal(a) = GetCmpVal(b)
        THEN RLt(GetInitTime(a), GetInitTime(b))
        ELSE RLt(GetCmpVal(a), GetCmpVal(b))

Swap(h, i, j) == [h EXCEPT ![i + 1] = h[j + 1], ![j + 1] = h[i + 1]]

\* Go's (j - 1) / 2 truncates towards zero
Parent(j) == IF j = 0 THEN 0 ELSE (j - 1) \div 2

RECURSIVE HeapUp(_, _, _)
HeapUp(rq, h, j) ==
    LET i == Parent(j)
    IN  IF i = j \/ ~Less(rq, h, j, i)
        THEN h
        ELSE HeapUp(rq, Swap(h, i, j), i)

RECURSIVE HeapDown(_, _, _, _)
HeapDown(rq, h, i, n) ==
    LET j1 == 2 * i + 1
        j2 == j1 + 1
        j == IF j2 < n /\ Less(rq, h, j2, j1) THEN j2 ELSE j1
    IN  IF j1 >= n
        THEN h
        ELSE IF ~Less(rq, h, j, i)
             THEN h
             ELSE HeapDown(rq, Swap(h, i, j), j, n)

\* PQueueEnqueue without the type assertion
PQueueEnqueue_Unchecked(rq, h, el) ==
    [panic |-> FALSE, q |-> HeapUp(rq, Append(h, el), Len(h))]

PQueueEnqueue(rq, h, el) ==
    IF ~ImplementsComparable(rq[el])
    THEN [panic |-> TRUE, q |-> h]
    ELSE [panic |-> FALSE, q |-> HeapUp(rq, Append(h, el), Len(h))]

\* heap.Pop of an empty heap swaps indices 0 and -1: a panic
PQueueDequeue(rq, h) ==
    IF h = <<>>
    THEN [panic |-> TRUE, el |-> 0, q |-> h]
    ELSE LET n == Len(h) - 1
             d == HeapDown(rq, Swap(h, 0, n), 0, n)
         IN  [panic |-> FALSE, el |-> d[n + 1], q |-> SubSeq(d, 1, n)]

PQueueLen(h) == Len(h)

----------------------------------------------------------------------------
(* The queue q of the topology: a PQueue for procType 3, a Queue otherwise *)

IsPQueue == procType = 3

Enqueue(rq, q, el) ==
    IF IsPQueue
    THEN PQueueEnqueue(rq, q, el)
    ELSE [panic |-> FALSE, q |-> QueueEnqueue(q, el)]

Dequeue(rq, q) ==
    IF IsPQueue THEN PQueueDequeue(rq, q) ELSE QueueDequeue(q)

----------------------------------------------------------------------------
(* AllKeeper *)

\* TerminateReq recording the remaining service time (its fallback branch)
TerminateReq_Remaining(its, r, t) ==
    Append(its, [ServiceTime |-> r.ServiceTime, Delay |-> GetDelay(r, t)])

\* TerminateReq computing the delay from the clock value of the previous slice
TerminateReq_StaleClock(its, r, t) ==
    Append(its, [ServiceTime |-> r.OriginalServiceTime, Delay |-> GetDelay(r, now)])

TerminateReq(its, r, t) ==
    Append(its, [ServiceTime |-> r.OriginalServiceTime, Delay |-> GetDelay(r, t)])

\* The percentiles both drains report: 0.5, 0.9, 0.95, 0.99
percentiles == <<<<1, 2>>, <<9, 10>>, <<19, 20>>, <<99, 100>>>>

\* int(x): the conversion truncates toward zero
Trunc(x) == IF x[1] >= 0 THEN x[1] \div x[2] ELSE -((-x[1]) \div x[2])

\* math.Sqrt(x), kept as the square root of x: two such values are equal
\* exactly when their radicands are, and a negative radicand gives NaN
Sqrt(x) == [sqrt |-> x, nan |-> RLt(x, R(0))]

\* for _, item := range k.items { tmp += item.Delay }
RECURSIVE SumDelay(_, _)
SumDelay(its, tmp) ==
    IF its = <<>> THEN tmp ELSE SumDelay(Tail(its), RAdd(tmp, Head(its).Delay))

\* for _, item := range k.items { tmp += item.Delay * item.Delay }
RECURSIVE SumSquareDelay(_, _)
SumSquareDelay(its, tmp) ==
    IF its = <<>>
    THEN tmp
    ELSE SumSquareDelay(Tail(its),
                        RAdd(tmp, RMul(Head(its).Delay, Head(its).Delay)))

\* AllKeeper.avg
avg(its) == RDiv(SumDelay(its, R(0)), R(Len(its)))

\* AllKeeper.std: math.Sqrt(tmp/len - k.avg())
std(its) ==
    Sqrt(RSub(RDiv(SumSquareDelay(its, R(0)), R(Len(its))), avg(its)))

RECURSIVE InsertSorted(_, _)
InsertSorted(ds, d) ==
    IF ds = <<>> \/ RLt(d, Head(ds))
    THEN <<d>> \o ds
    ELSE <<Head(ds)>> \o InsertSorted(Tail(ds), d)

\* sort.Float64s of the delays
RECURSIVE SortedDelays(_)
SortedDelays(its) ==
    IF its = <<>>
    THEN <<>>
    ELSE InsertSorted(SortedDelays(Tail(its)), Head(its).Delay)

\* idx := int(float64(len(delays)) * v), clamped to len(delays) - 1
PercentileIndex(n, v) ==
    LET idx == Trunc(RMul(R(n), v))
    IN  IF idx >= n THEN n - 1 ELSE idx

\* AllKeeper.getPercentiles: percentile number -> delay (slices start at 0)
getPercentiles(its) ==
    LET delays == SortedDelays(its)
    IN  [i \in DOMAIN percentiles |->
            delays[PercentileIndex(Len(delays), percentiles[i]) + 1]]

\* What AllKeeper.PrintStats puts in the delay row
AllKeeperStats(its) ==
    IF its = <<>>
    THEN [kind |-> "AllKeeper", count |-> 0]
    ELSE [kind |-> "AllKeeper", count |-> Len(its), avg |-> avg(its),
          std |-> std(its), percentiles |-> getPercentiles(its)]

----------------------------------------------------------------------------
(* histogram and BookKeeper *)

gRANULARITY == <<1, 100>>

newHistogram ==
    [granularity |-> gRANULARITY,
     buckets |-> [i \in 0..(BucketCount - 1) |-> 0],
     count |-> 0,
     minBucket |-> BucketCount - 1,
     maxBucket |-> 0,
     sum |-> R(0),
     sumSquare |-> R(0)]

\* index := int(s / hdr.granularity), capped at the last bucket
SampleIndex(h, s) ==
    LET index == Trunc(RDiv(s, h.granularity))
    IN  IF index >= BucketCount THEN BucketCount - 1 ELSE index

\* histogram.addSample for a sample whose index is not negative
addSample(h, s) ==
    LET index == SampleIndex(h, s)
    IN  [h EXCEPT !.buckets[index] = @ + 1,
                  !.maxBucket = IF index > @ THEN index ELSE @,
                  !.minBucket = IF index < @ THEN index ELSE @,
                  !.count = @ + 1,
                  !.sum = RAdd(@, s),
                  !.sumSquare = RAdd(@, RMul(s, s))]

\* percentiles[percentileI] * float64(hdr.count), percentileI counted from 1
Rank(h, pi) == RMul(percentiles[pi], R(h.count))

\* The first loop of histogram.getPercentiles: its condition indexes
\* percentiles before any check of percentileI, which is an index out of
\* range once all four percentiles fell into the first bucket
RECURSIVE FirstBucket(_, _, _)
FirstBucket(h, res, pi) ==
    IF pi > Len(percentiles)
    THEN [panic |-> TRUE, res |-> res, pi |-> pi]
    ELSE IF RLt(Rank(h, pi), R(h.buckets[h.minBucket]))
         THEN FirstBucket(h,
                  (pi :> RMul(RDiv(h.granularity, R(h.buckets[h.minBucket])),
                              Rank(h, pi))) @@ res,
                  pi + 1)
         ELSE [panic |-> FALSE, res |-> res, pi |-> pi]

\* down + granularity / buckets[i] * (rank - accum[i-1]) with
\* down := hdr.granularity * float64(i-1)
Interpolate(h, pi, i, prev) ==
    RAdd(RMul(h.granularity, R(i - 1)),
         RMul(RDiv(h.granularity, R(h.buckets[i])), RSub(Rank(h, pi), R(prev))))

\* The second loop: bucket i, accum[i-1] = prev, accum[i] = acc
RECURSIVE LaterBuckets(_, _, _, _, _)
LaterBuckets(h, res, pi, i, prev) ==
    IF i > h.maxBucket
    THEN [panic |-> FALSE, res |-> res]
    ELSE LET acc == prev + h.buckets[i]
         IN  IF RLt(Rank(h, pi), R(acc))
             THEN LET r == (pi :> Interpolate(h, pi, i, prev)) @@ res
                  IN  IF pi + 1 > Len(percentiles)
                      THEN [panic |-> FALSE, res |-> r]
                      ELSE LaterBuckets(h, r, pi + 1, i, prev)
             ELSE LaterBuckets(h, res, pi, i + 1, acc)

\* histogram.getPercentiles: percentile number -> value, or a runtime panic
histogramPercentiles(h) ==
    LET first == FirstBucket(h, <<>>, 1)
    IN  IF first.panic
        THEN [panic |-> TRUE, res |-> first.res]
        ELSE IF first.pi > Len(percentiles)
             THEN [panic |-> FALSE, res |-> first.res]
             ELSE LaterBuckets(h, first.res, first.pi, h.minBucket + 1,
                               h.buckets[h.minBucket])

\* What BookKeeper.PrintStats gets from getPercentiles
BookKeeperStats(h) ==
    LET p == histogramPercentiles(h)
    IN  [kind |-> "BookKeeper", count |-> h.count, panic |-> p.panic,
         percentiles |-> p.res]

NoReport == [kind |-> "none", count |-> 0]

----------------------------------------------------------------------------
(* engine: pending wakeups and the actor primitives *)

RECURSIVE Schedule(_, _)
Schedule(ws, w) ==
    IF ws = <<>> \/ RLt(w.time, Head(ws).time)
    THEN <<w>> \o ws
    ELSE <<Head(ws)>> \o Schedule(Tail(ws), w)

Cancel(ws, a) == SelectSeq(ws, LAMBDA w : w.actor # a)

Resumed(a) == ~panicked /\ wakeups # <<>> /\ Head(wakeups).actor = a

\* The part of the state the actor primitives act on
Engine ==
    [wakeups |-> Tail(wakeups), blocked |-> blocked, queue |-> queue,
     outq |-> outq, outBlocked |-> outBlocked, factor |-> factor,
     held |-> held, pc |-> pc, since |-> since, consumed |-> consumed,
     enqLog |-> enqLog, deqLog |-> deqLog, panicked |-> panicked]

\* Wait(d) by actor a at time t, suspended at program point c
Wait(st, a, d, c, t) ==
    [st EXCEPT !.wakeups = Schedule(@, [time |-> RAdd(t, d), actor |-> a,
                                        cause |-> "timer", req |-> 0]),
               !.pc = [@ EXCEPT ![a] = c],
               !.since = [@ EXCEPT ![a] = t]]

\* WriteInQueue / WriteOutQueueI at time t: enqueue; the longest-blocked reader,
\* if any, takes the element and resumes at t (any timer of its own is dropped)
Write(st, rq, el, t) ==
    LET e == Enqueue(rq, st.queue, el)
        logged == [st EXCEPT !.enqLog = Append(@, el)]
    IN  IF e.panic
        THEN [st EXCEPT !.panicked = TRUE]
        ELSE IF st.blocked = <<>>
             THEN [logged EXCEPT !.queue = e.q]
             ELSE LET a == Head(st.blocked)
                      d == Dequeue(rq, e.q)
                  IN  [logged EXCEPT
                          !.queue = d.q,
                          !.blocked = Tail(@),
                          !.deqLog = Append(@, d.el),
                          !.wakeups = Schedule(Cancel(@, a),
                                        [time |-> t, actor |-> a,
                                         cause |-> "queue", req |-> d.el])]

\* ReadInQueue by processor a: the head if there is one, else suspend.
\* The result's got is the request read, 0 when the actor suspended.
ReadInQueue(st, rq, a) ==
    IF st.queue = <<>>
    THEN [got |-> 0,
          st |-> [st EXCEPT !.blocked = Append(@, a),
                            !.held = [@ EXCEPT ![a] = 0],
                            !.pc = [@ EXCEPT ![a] = "read"]]]
    ELSE LET d == Dequeue(rq, st.queue)
         IN  [got |-> d.el,
              st |-> [st EXCEPT !.queue = d.q, !.deqLog = Append(@, d.el)]]

\* The request a resumed reader continues with: the one its wakeup carries,
\* or the one ReadInQueue returns
Obtain(st, rq, a, w) ==
    IF w.cause = "queue"
    THEN [got |-> w.req, st |-> st]
    ELSE ReadInQueue(st, rq, a)

Commit(st) ==
    /\ wakeups' = st.wakeups
    /\ blocked' = st.blocked
    /\ queue' = st.queue
    /\ outq' = st.outq
    /\ outBlocked' = st.outBlocked
    /\ factor' = st.factor
    /\ held' = st.held
    /\ pc' = st.pc
    /\ since' = st.since
    /\ consumed' = st.consumed
    /\ enqLog' = st.enqLog
    /\ deqLog' = st.deqLog
    /\ panicked' = st.panicked

----------------------------------------------------------------------------
(* SingleQueue: the state when engine.Run starts.  Every registered actor   *)
(* is resumed at time 0 in registration order: processors, then generator. *)

Registered ==
    [i \in 1..(IF procType = 1 THEN 1 ELSE cores) |->
        [time |-> R(0), actor |-> i, cause |-> "start", req |-> 0]]
    \o <<[time |-> R(0), actor |-> Gen, cause |-> "start", req |-> 0]>>

NewPSProcessor ==
    [count |-> 0, reqList |-> <<>>, curr |-> 0, prevTime |-> R(0), d |-> R(-1)]

\* GeneratorSelected falling back to a generator for an unknown genType
GeneratorSelected_Fallback(gt) == TRUE

\* The if / else-if chain on genType has no else: g stays nil outside 0..5,
\* and g.SetCreator on the nil interface panics
GeneratorSelected(gt) == gt \in 0..5

Init ==
    /\ floatBits = 0
    /\ topo = 0
    /\ genType \in GenTypes
    /\ script = <<>>
    /\ procType \in 0..3
    /\ cores \in CoreCounts
    /\ quantum \in Quantums
    /\ ctxCost \in CtxCosts
    /\ bufSize = 0
    /\ creator = "SimpleReqCreator"
    /\ now = R(0)
    /\ wakeups = IF GeneratorSelected(genType) THEN Registered ELSE <<>>
    /\ blocked = <<>>
    /\ reqs = <<>>
    /\ created = 0
    /\ queue = <<>>
    /\ outq = <<>>
    /\ outBlocked = <<>>
    /\ held = [p \in 1..cores |-> 0]
    /\ pc = [p \in 1..cores |-> "start"]
    /\ ps = NewPSProcessor
    /\ factor = [p \in 1..cores |-> R(0)]
    /\ items = <<>>
    /\ panicked = ~GeneratorSelected(genType)
    /\ since = [p \in 1..cores |-> R(0)]
    /\ consumed = R(0)
    /\ enqLog = <<>>
    /\ deqLog = <<>>
    /\ done = {}
    /\ peak = 0
    /\ keeper = "AllKeeper"
    /\ hdr = newHistogram
    /\ report = NoReport

----------------------------------------------------------------------------
(* Generator.Run: create a request, write it to q, wait an interarrival *)

GeneratorRun ==
    /\ Resumed(Gen)
    /\ created < MaxReqs
    /\ \E serviceTime \in 1..MaxService, gap \in 0..MaxGap, color \in Colors :
        LET t == Head(wakeups).time
            id == created + 1
            rq == Append(reqs, CreatorNewRequest(creator, serviceTime, color, t))
        IN  \E st \in {Write(Engine, rq, id, t)} :
            \E next \in {IF id < MaxReqs /\ ~st.panicked
                          THEN [st EXCEPT !.wakeups =
                                   Schedule(@, [time |-> RAdd(t, R(gap)), actor |-> Gen,
                                                cause |-> "timer", req |-> 0])]
                          ELSE st} :
               /\ now' = t
               /\ reqs' = rq
               /\ created' = id
               /\ Commit(next)
    /\ UNCHANGED <<config, stats, ps, items, done, peak>>

----------------------------------------------------------------------------
(* RTCProcessor.Run.  SingleQueue creates plain requests, so the branch   *)
(* for *MonitorReq is never taken.                                         *)

\* RTCServe without the context-switch cost
RTCServe_NoCtx(p, st, rq, el, t) ==
    Wait([st EXCEPT !.held = [@ EXCEPT ![p] = el]], p,
         rq[el].ServiceTime, "terminate", t)

RTCServe(p, st, rq, el, t) ==
    Wait([st EXCEPT !.held = [@ EXCEPT ![p] = el]], p,
         RAdd(rq[el].ServiceTime, R(ctxCost)), "terminate", t)

RTCProcessorRun(p) ==
    /\ procType = 0
    /\ Resumed(p)
    /\ LET w == Head(wakeups)
           t == w.time
           finished == w.cause = "timer"
           o == Obtain(Engine, reqs, p, w)
       IN  /\ now' = t
           /\ items' = IF finished THEN TerminateReq(items, reqs[held[p]], t) ELSE items
           /\ done' = IF finished THEN done \cup {held[p]} ELSE done
           /\ Commit(IF o.got = 0 THEN o.st ELSE RTCServe(p, o.st, reqs, o.got, t))
    /\ UNCHANGED <<config, stats, reqs, created, ps, peak>>

----------------------------------------------------------------------------
(* TSProcessor.Run and SrptTSProcessor.Run: the same loop body *)

\* TSServe comparing with < instead of <=
TSServe_Strict(p, st, rq, el, t) ==
    LET h == [st EXCEPT !.held = [@ EXCEPT ![p] = el]]
    IN  IF RLt(rq[el].ServiceTime, R(quantum))
        THEN Wait(h, p, RAdd(rq[el].ServiceTime, R(ctxCost)), "terminate", t)
        ELSE Wait(h, p, RAdd(R(quantum), R(ctxCost)), "preempt", t)

\* TSServe waiting a whole quantum for a request that needs less
TSServe_WholeQuantum(p, st, rq, el, t) ==
    LET h == [st EXCEPT !.held = [@ EXCEPT ![p] = el]]
    IN  IF RLe(rq[el].ServiceTime, R(quantum))
        THEN Wait(h, p, RAdd(R(quantum), R(ctxCost)), "terminate", t)
        ELSE Wait(h, p, RAdd(R(quantum), R(ctxCost)), "preempt", t)

\* TSServe charging the context-switch cost on completions only
TSServe_FreePreempt(p, st, rq, el, t) ==
    LET h == [st EXCEPT !.held = [@ EXCEPT ![p] = el]]
    IN  IF RLe(rq[el].ServiceTime, R(quantum))
        THEN Wait(h, p, RAdd(rq[el].ServiceTime, R(ctxCost)), "terminate", t)
        ELSE Wait(h, p, R(quantum), "preempt", t)

TSServe(p, st, rq, el, t) ==
    LET h == [st EXCEPT !.held = [@ EXCEPT ![p] = el]]
    IN  IF RLe(rq[el].ServiceTime, R(quantum))
        THEN Wait(h, p, RAdd(rq[el].ServiceTime, R(ctxCost)), "terminate", t)
        ELSE Wait(h, p, RAdd(R(quantum), R(ctxCost)), "preempt", t)

\* TSPreempt taking the whole wait, context cost included, off the request
TSPreempt_SubSlice(p, st, rq, t) ==
    LET r == held[p]
        rq1 == [rq EXCEPT ![r] = SubServiceTime(@, RAdd(R(quantum), R(ctxCost)))]
    IN  [rq |-> rq1, st |-> Write(st, rq1, r, t)]

\* TSPreempt re-enqueueing the request without SubServiceTime
TSPreempt_KeepService(p, st, rq, t) ==
    LET r == held[p]
    IN  [rq |-> rq, st |-> Write(st, rq, r, t)]

\* After the Wait of the else branch: SubServiceTime, WriteInQueue
TSPreempt(p, st, rq, t) ==
    LET r == held[p]
        rq1 == [rq EXCEPT ![r] = SubServiceTime(@, R(quantum))]
    IN  [rq |-> rq1, st |-> Write(st, rq1, r, t)]

TimeSharingRun(p) ==
    /\ Resumed(p)
    /\ LET w == Head(wakeups)
           t == w.time
           finished == w.cause = "timer" /\ pc[p] = "terminate"
           preempted == w.cause = "timer" /\ pc[p] = "preempt"
           e == IF w.cause = "timer"
                THEN [Engine EXCEPT !.consumed =
                         RAdd(@, RSub(RSub(t, since[p]), R(ctxCost)))]
                ELSE Engine
       IN  \E a \in {IF preempted THEN TSPreempt(p, e, reqs, t)
                                    ELSE [rq |-> reqs, st |-> e]} :
           \E o \in {Obtain(a.st, a.rq, p, w)} :
           \E st \in {IF a.st.panicked THEN a.st
                      ELSE IF o.got = 0 THEN o.st
                      ELSE TSServe(p, o.st, a.rq, o.got, t)} :
              /\ now' = t
              /\ reqs' = a.rq
              /\ items' = IF finished THEN TerminateReq(items, reqs[held[p]], t)
                                      ELSE items
              /\ done' = IF finished THEN done \cup {held[p]} ELSE done
              /\ Commit(st)
    /\ UNCHANGED <<config, stats, created, ps, peak>>

TSProcessorRun(p) == procType = 2 /\ TimeSharingRun(p)

SrptTSProcessorRun(p) == procType = 3 /\ TimeSharingRun(p)

----------------------------------------------------------------------------
(* PSProcessor *)

\* MinScan comparing with <=: the last of equals
RECURSIVE MinScan_LastOfEquals(_, _, _, _)
MinScan_LastOfEquals(rq, l, k, minI) ==
    IF k > Len(l)
    THEN minI
    ELSE MinScan_LastOfEquals(rq, l, k + 1,
                 IF RLe(rq[l[k]].ServiceTime, rq[l[minI]].ServiceTime) THEN k ELSE minI)

RECURSIVE MinScan(_, _, _, _)
MinScan(rq, l, k, minI) ==
    IF k > Len(l)
    THEN minI
    ELSE MinScan(rq, l, k + 1,
                 IF RLt(rq[l[k]].ServiceTime, rq[l[minI]].ServiceTime) THEN k ELSE minI)

\* The element (a request id) with the smallest ServiceTime, the first of equals
getMinService(rq, l) == l[MinScan(rq, l, 1, 1)]

\* getFactor without the cap at 1
getFactor_NoCap(workerCount, count) ==
    IF count = 0 THEN R(1) ELSE Norm(workerCount, count)

getFactor(workerCount, count) ==
    IF workerCount > count THEN R(1) ELSE Norm(workerCount, count)

\* updateServiceTimes that does not store currTime in prevTime
updateServiceTimes_KeepPrev(rq, p, currTime) ==
    LET diff == RMul(RSub(currTime, p.prevTime), getFactor(cores, p.count))
    IN  [rq |-> [i \in DOMAIN rq |->
                    IF \E k \in DOMAIN p.reqList : p.reqList[k] = i
                    THEN SubServiceTime(rq[i], diff)
                    ELSE rq[i]],
         ps |-> p]

\* updateServiceTimes that ignores the sharing factor
updateServiceTimes_FullRate(rq, p, currTime) ==
    LET diff == RSub(currTime, p.prevTime)
    IN  [rq |-> [i \in DOMAIN rq |->
                    IF \E k \in DOMAIN p.reqList : p.reqList[k] = i
                    THEN SubServiceTime(rq[i], diff)
                    ELSE rq[i]],
         ps |-> [p EXCEPT !.prevTime = currTime]]

updateServiceTimes(rq, p, currTime) ==
    LET diff == RMul(RSub(currTime, p.prevTime), getFactor(cores, p.count))
    IN  [rq |-> [i \in DOMAIN rq |->
                    IF \E k \in DOMAIN p.reqList : p.reqList[k] = i
                    THEN SubServiceTime(rq[i], diff)
                    ELSE rq[i]],
         ps |-> [p EXCEPT !.prevTime = currTime]]

Remove(l, el) == SelectSeq(l, LAMBDA x : x # el)

\* PSApply that leaves the completed request in the list
PSApply_KeepCurr(p, intr, newReq) ==
    IF intr
    THEN [p EXCEPT !.count = @ - 1]
    ELSE [p EXCEPT !.count = @ + 1, !.reqList = Append(@, newReq)]

\* The if / else on intr in Run
PSApply(p, intr, newReq) ==
    IF intr
    THEN [p EXCEPT !.reqList = Remove(@, p.curr), !.count = @ - 1]
    ELSE [p EXCEPT !.count = @ + 1, !.reqList = Append(@, newReq)]

\* The if / else on count in Run: the next curr and d
PSNext(rq, p) ==
    IF p.count > 0
    THEN LET c == getMinService(rq, p.reqList)
         IN  [p EXCEPT !.curr = c,
                       !.d = RDiv(rq[c].ServiceTime, getFactor(cores, p.count))]
    ELSE [p EXCEPT !.d = R(-1)]

\* WaitInterruptible that arms the timer whatever the sign of d
WaitInterruptible_AlwaysTimed(st, rq, a, d, t) ==
    IF st.queue # <<>>
    THEN LET e == Dequeue(rq, st.queue)
         IN  [st EXCEPT !.queue = e.q,
                        !.deqLog = Append(@, e.el),
                        !.wakeups = Schedule(@, [time |-> t, actor |-> a,
                                                 cause |-> "queue", req |-> e.el])]
    ELSE [st EXCEPT !.blocked = Append(@, a),
                    !.since = [@ EXCEPT ![a] = t],
                    !.wakeups = Schedule(@, [time |-> RAdd(t, d), actor |-> a,
                                             cause |-> "timer", req |-> 0])]

\* engine: WaitInterruptible(d) by actor a at time t.  A request already in
\* the queue interrupts at once; otherwise the actor suspends on the queue,
\* with a timer when d >= 0.
WaitInterruptible(st, rq, a, d, t) ==
    IF st.queue # <<>>
    THEN LET e == Dequeue(rq, st.queue)
         IN  [st EXCEPT !.queue = e.q,
                        !.deqLog = Append(@, e.el),
                        !.wakeups = Schedule(@, [time |-> t, actor |-> a,
                                                 cause |-> "queue", req |-> e.el])]
    ELSE LET b == [st EXCEPT !.blocked = Append(@, a),
                             !.since = [@ EXCEPT ![a] = t]]
         IN  IF RLe(R(0), d)
             THEN [b EXCEPT !.wakeups = Schedule(@, [time |-> RAdd(t, d), actor |-> a,
                                                     cause |-> "timer", req |-> 0])]
             ELSE b

PSProcessorRun ==
    /\ procType = 1
    /\ Resumed(1)
    /\ LET w == Head(wakeups)
           t == w.time
           intr == w.cause = "timer"
           st == [Engine EXCEPT !.blocked = Remove(@, 1)]
           u == updateServiceTimes(reqs, ps, t)
           n == IF w.cause = "start" THEN ps
                ELSE PSNext(u.rq, PSApply(u.ps, intr, w.req))
       IN  /\ now' = t
           /\ reqs' = IF w.cause = "start" THEN reqs ELSE u.rq
           /\ items' = IF intr THEN TerminateReq(items, u.rq[ps.curr], t) ELSE items
           /\ done' = IF intr THEN done \cup {ps.curr} ELSE done
           /\ ps' = n
           /\ peak' = IF n.count > peak THEN n.count ELSE peak
           /\ Commit(WaitInterruptible(st, reqs', 1, n.d, t))
    /\ UNCHANGED <<config, stats, created>>

----------------------------------------------------------------------------
(* engine.Run: resume the actor of the earliest pending wakeup *)

Next ==
    \/ GeneratorRun
    \/ \E p \in Procs : RTCProcessorRun(p)
    \/ \E p \in Procs : TSProcessorRun(p)
    \/ \E p \in Procs : SrptTSProcessorRun(p)
    \/ PSProcessorRun

Spec == Init /\ [][Next]_vars

(* The time-sharing systems under engine.Run's scheduling: the event loop *)
(* keeps resuming the actor of the earliest pending wakeup while there is  *)
(* one, and the run has no duration limit                                  *)

InitTimeSharing == Init /\ procType \in {2, 3} /\ GeneratorSelected(genType)

NextTimeSharing ==
    \/ GeneratorRun
    \/ \E p \in Procs : TSProcessorRun(p)
    \/ \E p \in Procs : SrptTSProcessorRun(p)

TimeSharingSpec ==
    InitTimeSharing /\ [][NextTimeSharing]_vars /\ WF_vars(NextTimeSharing)

----------------------------------------------------------------------------
(* A queue on its own: any sequence of Enqueue and Dequeue calls *)

Elements ==
    {[InitTime |-> R(i), ServiceTime |-> R(k), OriginalServiceTime |-> R(k),
      kind |-> "Request"] : i \in 0..1, k \in 1..MaxKey}
    \cup {[InitTime |-> R(0), ServiceTime |-> R(1), OriginalServiceTime |-> R(1),
           kind |-> "Opaque"]}

InitQueues ==
    /\ floatBits = 0
    /\ topo = 0
    /\ genType = 0
    /\ script = <<>>
    /\ procType \in {0, 3}
    /\ cores = 1
    /\ quantum = 1
    /\ ctxCost = 0
    /\ bufSize = 0
    /\ creator = "SimpleReqCreator"
    /\ now = R(0)
    /\ wakeups = <<>>
    /\ blocked = <<>>
    /\ reqs = <<>>
    /\ created = 0
    /\ queue = <<>>
    /\ outq = <<>>
    /\ outBlocked = <<>>
    /\ held = [p \in 1..cores |-> 0]
    /\ pc = [p \in 1..cores |-> "start"]
    /\ ps = NewPSProcessor
    /\ factor = [p \in 1..cores |-> R(0)]
    /\ items = <<>>
    /\ panicked = FALSE
    /\ since = [p \in 1..cores |-> R(0)]
    /\ consumed = R(0)
    /\ enqLog = <<>>
    /\ deqLog = <<>>
    /\ done = {}
    /\ peak = 0
    /\ keeper = "AllKeeper"
    /\ hdr = newHistogram
    /\ report = NoReport

CallsLeft == ~panicked /\ created + Len(deqLog) < MaxOps

EnqueueCall ==
    /\ CallsLeft
    /\ \E el \in Elements :
        LET id == created + 1
            rq == Append(reqs, el)
            e == Enqueue(rq, queue, id)
        IN  /\ reqs' = rq
            /\ created' = id
            /\ queue' = e.q
            /\ panicked' = e.panic
            /\ enqLog' = IF e.panic THEN enqLog ELSE Append(enqLog, id)
    /\ UNCHANGED <<config, stats, now, wakeups, blocked, held, pc, ps, items, since,
                   deqLog, done, peak, outq, outBlocked, factor, consumed>>

DequeueCall ==
    /\ CallsLeft
    /\ LET d == Dequeue(reqs, queue)
       IN  /\ queue' = d.q
           /\ panicked' = d.panic
           /\ deqLog' = IF d.panic THEN deqLog ELSE Append(deqLog, d.el)
    /\ UNCHANGED <<config, stats, now, wakeups, blocked, reqs, created, held, pc, ps,
                   items, since, enqLog, done, peak, outq, outBlocked, factor,
                   consumed>>

NextQueues == EnqueueCall \/ DequeueCall

QueueSpec == InitQueues /\ [][NextQueues]_vars

----------------------------------------------------------------------------
(* The bounded-queue topology: the generator writes to q, a                *)
(* BoundedProcessor (actor 1) reads q and forwards to its output queue,    *)
(* a BoundedProcessor2 (actor 2) reads that queue.  Both queues are FIFO.  *)

\* engine: WriteOutQueue at time t, on the output queue of actor 1
WriteOutQueue(st, el, t) ==
    IF st.outBlocked = <<>>
    THEN [st EXCEPT !.outq = QueueEnqueue(@, el)]
    ELSE LET a == Head(st.outBlocked)
             d == QueueDequeue(QueueEnqueue(st.outq, el))
         IN  [st EXCEPT !.outq = d.q,
                        !.outBlocked = Tail(@),
                        !.wakeups = Schedule(Cancel(@, a),
                                      [time |-> t, actor |-> a,
                                       cause |-> "queue", req |-> d.el])]

\* engine: ReadInQueue by actor a, whose input queue is that output queue
ReadOutQueue(st, a) ==
    IF st.outq = <<>>
    THEN [got |-> 0,
          st |-> [st EXCEPT !.outBlocked = Append(@, a),
                            !.held = [@ EXCEPT ![a] = 0],
                            !.pc = [@ EXCEPT ![a] = "read"]]]
    ELSE LET d == QueueDequeue(st.outq)
         IN  [got |-> d.el, st |-> [st EXCEPT !.outq = d.q]]

\* The type switch of BoundedProcessor.Run: factor is declared before the
\* loop and keeps its value for a request that is no *ColoredReq
BoundedFactor(f, r) ==
    IF r.kind = "ColoredReq"
    THEN IF r.color = 1 THEN R(2) ELSE R(1)
    ELSE f

\* The type switch of BoundedProcessor2.Run
BoundedFactor2(f, r) ==
    IF r.kind = "ColoredReq"
    THEN IF r.color = 0 THEN R(2) ELSE R(1)
    ELSE f

\* BoundedServe that adds the context-switch cost
BoundedServe_Ctx(p, st, rq, el, f, t) ==
    Wait([st EXCEPT !.held = [@ EXCEPT ![p] = el],
                    !.factor = [@ EXCEPT ![p] = f]], p,
         RAdd(RMul(f, rq[el].ServiceTime), R(ctxCost)), "serve", t)

\* p.Wait(factor * req.GetServiceTime())
BoundedServe(p, st, rq, el, f, t) ==
    Wait([st EXCEPT !.held = [@ EXCEPT ![p] = el],
                    !.factor = [@ EXCEPT ![p] = f]], p,
         RMul(f, rq[el].ServiceTime), "serve", t)

\* The if after the Wait taking the write branch whatever the length is
Forwards_Always(len) == TRUE

\* The if after the Wait comparing with <=
Forwards_Inclusive(len) == len <= bufSize

\* if len < p.bufSize
Forwards(len) == len < bufSize

\* BoundedProcessor.Run of actor p
BoundedProcessorRunOf(p) ==
    /\ Resumed(p)
    /\ LET w == Head(wakeups)
           t == w.time
           served == w.cause = "timer"
           forward == served /\ Forwards(QueueLen(outq))
           a == IF forward THEN WriteOutQueue(Engine, held[p], t) ELSE Engine
           o == Obtain(a, reqs, p, w)
       IN  /\ now' = t
           /\ items' = IF served /\ ~forward
                       THEN TerminateReq(items, reqs[held[p]], t)
                       ELSE items
           /\ done' = IF served /\ ~forward THEN done \cup {held[p]} ELSE done
           /\ Commit(IF o.got = 0 THEN o.st
                     ELSE BoundedServe(p, o.st, reqs, o.got,
                                       BoundedFactor(factor[p], reqs[o.got]), t))
    /\ UNCHANGED <<config, stats, reqs, created, ps, peak>>

BoundedProcessorRun == BoundedProcessorRunOf(1)

\* BoundedProcessor2.Run of actor p
BoundedProcessor2RunOf(p) ==
    /\ Resumed(p)
    /\ LET w == Head(wakeups)
           t == w.time
           served == w.cause = "timer"
           o == IF w.cause = "queue"
                THEN [got |-> w.req, st |-> Engine]
                ELSE ReadOutQueue(Engine, p)
       IN  /\ now' = t
           /\ items' = IF served THEN TerminateReq(items, reqs[held[p]], t) ELSE items
           /\ done' = IF served THEN done \cup {held[p]} ELSE done
           /\ Commit(IF o.got = 0 THEN o.st
                     ELSE BoundedServe(p, o.st, reqs, o.got,
                                       BoundedFactor2(factor[p], reqs[o.got]), t))
    /\ UNCHANGED <<config, stats, reqs, created, ps, peak>>

BoundedProcessor2Run == BoundedProcessor2RunOf(2)

InitBounded ==
    /\ floatBits = 0
    /\ topo = 2
    /\ genType = 0
    /\ script = <<>>
    /\ procType = 0
    /\ cores = 2
    /\ quantum = 1
    /\ ctxCost \in CtxCosts
    /\ bufSize \in BufSizes
    /\ creator \in Creators
    /\ now = R(0)
    /\ wakeups = Registered
    /\ blocked = <<>>
    /\ reqs = <<>>
    /\ created = 0
    /\ queue = <<>>
    /\ outq = <<>>
    /\ outBlocked = <<>>
    /\ held = [p \in 1..cores |-> 0]
    /\ pc = [p \in 1..cores |-> "start"]
    /\ ps = NewPSProcessor
    /\ factor = [p \in 1..cores |-> R(0)]
    /\ items = <<>>
    /\ panicked = FALSE
    /\ since = [p \in 1..cores |-> R(0)]
    /\ consumed = R(0)
    /\ enqLog = <<>>
    /\ deqLog = <<>>
    /\ done = {}
    /\ peak = 0
    /\ keeper = "AllKeeper"
    /\ hdr = newHistogram
    /\ report = NoReport

NextBounded ==
    \/ GeneratorRun
    \/ BoundedProcessorRun
    \/ BoundedProcessor2Run

BoundedSpec == InitBounded /\ [][NextBounded]_vars

----------------------------------------------------------------------------
(* Several BoundedProcessor instances with the same bound read q and are   *)
(* the only writers of one output queue; the last actor, a                 *)
(* BoundedProcessor2, reads that queue.                                    *)

\* The number of BoundedProcessor instances that share the output queue
WriterCounts == {2, 3}

Writers == 1..(cores - 1)

InitFanIn ==
    /\ floatBits = 0
    /\ topo = 2
    /\ genType = 0
    /\ script = <<>>
    /\ procType = 0
    /\ cores \in {n + 1 : n \in WriterCounts}
    /\ quantum = 1
    /\ ctxCost = 0
    /\ bufSize \in BufSizes
    /\ creator = "ColoredReqCreator"
    /\ now = R(0)
    /\ wakeups = Registered
    /\ blocked = <<>>
    /\ reqs = <<>>
    /\ created = 0
    /\ queue = <<>>
    /\ outq = <<>>
    /\ outBlocked = <<>>
    /\ held = [p \in 1..cores |-> 0]
    /\ pc = [p \in 1..cores |-> "start"]
    /\ ps = NewPSProcessor
    /\ factor = [p \in 1..cores |-> R(0)]
    /\ items = <<>>
    /\ panicked = FALSE
    /\ since = [p \in 1..cores |-> R(0)]
    /\ consumed = R(0)
    /\ enqLog = <<>>
    /\ deqLog = <<>>
    /\ done = {}
    /\ peak = 0
    /\ keeper = "AllKeeper"
    /\ hdr = newHistogram
    /\ report = NoReport

NextFanIn ==
    \/ GeneratorRun
    \/ \E p \in Writers : BoundedProcessorRunOf(p)
    \/ BoundedProcessor2RunOf(cores)

FanInSpec == InitFanIn /\ [][NextFanIn]_vars

----------------------------------------------------------------------------
(* Both topologies *)

InitSystem == Init \/ InitBounded

NextSystem ==
    \/ topo = 0 /\ Next
    \/ topo = 2 /\ NextBounded

SystemSpec == InitSystem /\ [][NextSystem]_vars

----------------------------------------------------------------------------
(* The single-queue topology under TS or SRPT-TS in a run whose samples    *)
(* are fixed: the generator draws the service times of script in turn and  *)
(* interarrival times of 0.                                                *)

ScriptedGeneratorRun ==
    /\ Resumed(Gen)
    /\ created < Len(script)
    /\ LET t == Head(wakeups).time
           id == created + 1
           rq == Append(reqs, CreatorNewRequest(creator, script[id], 0, t))
           st == Write(Engine, rq, id, t)
       IN  /\ now' = t
           /\ reqs' = rq
           /\ created' = id
           /\ Commit(IF id < Len(script) /\ ~st.panicked
                     THEN [st EXCEPT !.wakeups =
                              Schedule(@, [time |-> t, actor |-> Gen,
                                           cause |-> "timer", req |-> 0])]
                     ELSE st)
    /\ UNCHANGED <<config, stats, ps, items, done, peak>>

InitScripted ==
    /\ floatBits = 0
    /\ topo = 0
    /\ genType = 5
    /\ script \in Scripts
    /\ procType \in {2, 3}
    /\ cores \in CoreCounts
    /\ quantum \in ScriptQuantums
    /\ ctxCost \in CtxCosts
    /\ bufSize = 0
    /\ creator = "SimpleReqCreator"
    /\ now = R(0)
    /\ wakeups = Registered
    /\ blocked = <<>>
    /\ reqs = <<>>
    /\ created = 0
    /\ queue = <<>>
    /\ outq = <<>>
    /\ outBlocked = <<>>
    /\ held = [p \in 1..cores |-> 0]
    /\ pc = [p \in 1..cores |-> "start"]
    /\ ps = NewPSProcessor
    /\ factor = [p \in 1..cores |-> R(0)]
    /\ items = <<>>
    /\ panicked = FALSE
    /\ since = [p \in 1..cores |-> R(0)]
    /\ consumed = R(0)
    /\ enqLog = <<>>
    /\ deqLog = <<>>
    /\ done = {}
    /\ peak = 0
    /\ keeper = "AllKeeper"
    /\ hdr = newHistogram
    /\ report = NoReport

NextScripted ==
    \/ ScriptedGeneratorRun
    \/ \E p \in Procs : TSProcessorRun(p)
    \/ \E p \in Procs : SrptTSProcessorRun(p)

ScriptedSpec == InitScripted /\ [][NextScripted]_vars

----------------------------------------------------------------------------
(* The single-queue topology under PS with rounding arithmetic *)

InitRounding ==
    /\ floatBits \in FloatWidths
    /\ topo = 0
    /\ genType = 5
    /\ script = <<>>
    /\ procType = 1
    /\ cores \in CoreCounts
    /\ quantum = 1
    /\ ctxCost = 0
    /\ bufSize = 0
    /\ creator = "SimpleReqCreator"
    /\ now = R(0)
    /\ wakeups = Registered
    /\ blocked = <<>>
    /\ reqs = <<>>
    /\ created = 0
    /\ queue = <<>>
    /\ outq = <<>>
    /\ outBlocked = <<>>
    /\ held = [p \in 1..cores |-> 0]
    /\ pc = [p \in 1..cores |-> "start"]
    /\ ps = NewPSProcessor
    /\ factor = [p \in 1..cores |-> R(0)]
    /\ items = <<>>
    /\ panicked = FALSE
    /\ since = [p \in 1..cores |-> R(0)]
    /\ consumed = R(0)
    /\ enqLog = <<>>
    /\ deqLog = <<>>
    /\ done = {}
    /\ peak = 0
    /\ keeper = "AllKeeper"
    /\ hdr = newHistogram
    /\ report = NoReport

NextRounding ==
    \/ GeneratorRun
    \/ PSProcessorRun

RoundingSpec == InitRounding /\ [][NextRounding]_vars

----------------------------------------------------------------------------
(* A stand-alone drain: requests created at time 0 are terminated at the   *)
(* times the caller chooses, then PrintStats is called once.               *)

\* The delays of the terminated requests, in units of half a bucket
Delays == {Lowest(k, 200) : k \in 0..(2 * BucketCount + 1)}

Samples == IF keeper = "AllKeeper" THEN Len(items) ELSE hdr.count

\* RequestDrain.TerminateReq of the drain in use
DrainTerminateReq ==
    /\ report = NoReport
    /\ Samples < MaxSamples
    /\ \E serviceTime \in 1..MaxService, d \in Delays :
          LET r == NewRequest(serviceTime, R(0))
          IN  IF keeper = "AllKeeper"
              THEN /\ items' = TerminateReq(items, r, d)
                   /\ hdr' = hdr
              ELSE /\ hdr' = addSample(hdr, GetDelay(r, d))
                   /\ items' = items
    /\ UNCHANGED <<config, keeper, report, now, wakeups, blocked, reqs, created,
                   queue, outq, outBlocked, held, pc, ps, factor, panicked,
                   since, consumed, enqLog, deqLog, done, peak>>

\* PrintStats of the drain in use
PrintStats ==
    /\ report = NoReport
    /\ report' = IF keeper = "AllKeeper"
                 THEN AllKeeperStats(items)
                 ELSE BookKeeperStats(hdr)
    /\ UNCHANGED <<config, keeper, hdr, items, now, wakeups, blocked, reqs,
                   created, queue, outq, outBlocked, held, pc, ps, factor,
                   panicked, since, consumed, enqLog, deqLog, done, peak>>

InitDrain ==
    /\ floatBits = 0
    /\ topo = 0
    /\ genType = 5
    /\ script = <<>>
    /\ procType = 0
    /\ cores = 1
    /\ quantum = 1
    /\ ctxCost = 0
    /\ bufSize = 0
    /\ creator = "SimpleReqCreator"
    /\ now = R(0)
    /\ wakeups = <<>>
    /\ blocked = <<>>
    /\ reqs = <<>>
    /\ created = 0
    /\ queue = <<>>
    /\ outq = <<>>
    /\ outBlocked = <<>>
    /\ held = [p \in 1..cores |-> 0]
    /\ pc = [p \in 1..cores |-> "start"]
    /\ ps = NewPSProcessor
    /\ factor = [p \in 1..cores |-> R(0)]
    /\ items = <<>>
    /\ panicked = FALSE
    /\ since = [p \in 1..cores |-> R(0)]
    /\ consumed = R(0)
    /\ enqLog = <<>>
    /\ deqLog = <<>>
    /\ done = {}
    /\ peak = 0
    /\ keeper \in {"AllKeeper", "BookKeeper"}
    /\ hdr = newHistogram
    /\ report = NoReport

NextDrain ==
    \/ DrainTerminateReq
    \/ PrintStats

DrainSpec == InitDrain /\ [][NextDrain]_vars

----------------------------------------------------------------------------
(* Helpers of the properties *)

Range(f) == {f[i] : i \in DOMAIN f}

Last(q) == q[Len(q)]

IsPrefix(a, b) == Len(a) <= Len(b) /\ \A i \in 1..Len(a) : a[i] = b[i]

Occurrences(q, x) == Cardinality({i \in DOMAIN q : q[i] = x})

\* The pending wakeups of actor a
WakeupsOf(a) == SelectSeq(wakeups, LAMBDA w : w.actor = a)

\* Processor p is the actor the event loop resumes next, and its Wait is over
TimerFires(p) == Resumed(p) /\ Head(wakeups).cause = "timer"

----------------------------------------------------------------------------
(* C1: an RTC processor serves the head of the queue for exactly           *)
(* service_time + ctx_cost and then terminates it at the drain; requests   *)
(* are dispatched in the order they were enqueued, and a dispatched        *)
(* request is never preempted, modified or enqueued again.                 *)

C1_InOrder ==
    /\ IsPrefix(deqLog, enqLog)
    /\ \A r \in Ids : Occurrences(enqLog, r) = 1 /\ Occurrences(deqLog, r) <= 1

C1_Serving(p) ==
    held[p] # 0 =>
        LET r == held[p]
        IN  /\ reqs[r].ServiceTime = reqs[r].OriginalServiceTime
            /\ r \notin Range(queue) /\ r \notin done
            /\ \A o \in Procs \ {p} : held[o] # r
            /\ WakeupsOf(p) =
                 <<[time |-> RAdd(since[p], RAdd(reqs[r].OriginalServiceTime, R(ctxCost))),
                    actor |-> p, cause |-> "timer", req |-> 0]>>

C1_Completes(p) ==
    TimerFires(p) =>
        LET r == held[p]
        IN  /\ now' = RAdd(since[p], RAdd(reqs[r].ServiceTime, R(ctxCost)))
            /\ reqs'[r] = reqs[r]
            /\ done' = done \cup {r}
            /\ Len(items') = Len(items) + 1
            /\ Last(items').Delay = RSub(now', reqs[r].InitTime)
            /\ r \notin Range(queue') /\ \A o \in Procs : held'[o] # r

C1_RTCRunToCompletion ==
    [][procType = 0 =>
          /\ C1_InOrder'
          /\ \A p \in Procs : C1_Serving(p)' /\ C1_Completes(p)]_vars

\* A request had to queue behind another one and both were terminated
C1_Witness ==
    /\ procType = 0
    /\ Len(items) >= 2
    /\ ctxCost > 0
    /\ \E i \in DOMAIN items :
          RLt(RAdd(items[i].ServiceTime, R(ctxCost)), items[i].Delay)

----------------------------------------------------------------------------
(* C2: a TS processor whose request has service_time <= quantum waits      *)
(* service_time + ctx_cost and terminates it; otherwise it waits           *)
(* quantum + ctx_cost, takes exactly quantum off the remaining service     *)
(* time and puts the request back at the tail of the input queue.          *)

C2_Slice(p) ==
    TimerFires(p) =>
        LET r == held[p]
            s == reqs[r].ServiceTime
        IN  IF RLe(s, R(quantum))
            THEN /\ now' = RAdd(since[p], RAdd(s, R(ctxCost)))
                 /\ reqs'[r] = reqs[r]
                 /\ done' = done \cup {r}
                 /\ items' = Append(items, [ServiceTime |-> reqs[r].OriginalServiceTime,
                                            Delay |-> RSub(now', reqs[r].InitTime)])
                 /\ r \notin Range(queue')
            ELSE /\ now' = RAdd(since[p], RAdd(R(quantum), R(ctxCost)))
                 /\ reqs'[r].ServiceTime = RSub(s, R(quantum))
                 /\ done' = done /\ items' = items
                 /\ enqLog' = Append(enqLog, r)
                 /\ IF queue # <<>>
                    THEN queue' = Append(Tail(queue), r) /\ held'[p] = Head(queue)
                    ELSE /\ queue' = <<>>
                         /\ \/ held'[p] = r
                            \/ \E w \in Range(wakeups') :
                                  w.cause = "queue" /\ w.req = r /\ w.time = now'

C2_TSQuantum == [][procType = 2 => \A p \in Procs : C2_Slice(p)]_vars

\* A preempted request sits at the tail of the queue behind another request
C2_Witness ==
    /\ procType = 2
    /\ Len(queue) >= 2
    /\ RLt(reqs[Last(queue)].ServiceTime, reqs[Last(queue)].OriginalServiceTime)

----------------------------------------------------------------------------
(* Helpers of the PS properties *)

\* min(1, w / c), the rate of every in-progress request; 1 when none is
SharingFactor(w, c) ==
    IF c = 0 \/ RLe(R(1), <<w, c>>) THEN R(1) ELSE Norm(w, c)

\* The PS processor is resumed from WaitInterruptible
PSResumes == procType = 1 /\ Resumed(1) /\ Head(wakeups).cause # "start"

PSTimerExpires == PSResumes /\ Head(wakeups).cause = "timer"

PSArrival == PSResumes /\ Head(wakeups).cause = "queue"

Position(l, x) == CHOOSE k \in DOMAIN l : l[k] = x

----------------------------------------------------------------------------
(* C3: after updating the service times the PS processor, on timer expiry, *)
(* terminates curr at the drain, removes it from the list and decrements   *)
(* c; on an arrival it appends the request and increments c; then with     *)
(* c > 0 curr becomes the first request of minimum remaining service time  *)
(* and the timer is curr.service_time / f for the new c, and with c = 0    *)
(* the wait is indefinite.                                                 *)

C3_OnExpiry ==
    PSTimerExpires =>
        /\ done' = done \cup {ps.curr}
        /\ items' = Append(items, [ServiceTime |-> reqs[ps.curr].OriginalServiceTime,
                                   Delay |-> RSub(now', reqs[ps.curr].InitTime)])
        /\ ps.curr \in Range(ps.reqList)
        /\ ps'.reqList = SelectSeq(ps.reqList, LAMBDA x : x # ps.curr)
        /\ Len(ps'.reqList) = Len(ps.reqList) - 1
        /\ ps'.count = ps.count - 1

C3_OnArrival ==
    PSArrival =>
        /\ done' = done /\ items' = items
        /\ ps'.reqList = Append(ps.reqList, Head(wakeups).req)
        /\ ps'.count = ps.count + 1

C3_Rearm ==
    PSResumes =>
        IF ps'.count > 0
        THEN LET c == ps'.curr
                 l == ps'.reqList
             IN  /\ c \in Range(l)
                 /\ \A k \in DOMAIN l :
                       /\ RLe(reqs'[c].ServiceTime, reqs'[l[k]].ServiceTime)
                       /\ k < Position(l, c) =>
                             RLt(reqs'[c].ServiceTime, reqs'[l[k]].ServiceTime)
                 /\ RMul(ps'.d, SharingFactor(cores, ps'.count)) = reqs'[c].ServiceTime
                 /\ WakeupsOf(1)' = <<[time |-> RAdd(now', ps'.d), actor |-> 1,
                                       cause |-> "timer", req |-> 0]>>
                 /\ blocked' = <<1>>
        ELSE /\ ps'.d = R(-1)
             /\ WakeupsOf(1)' = <<>>
             /\ blocked' = <<1>>

----------------------------------------------------------------------------
(* C4: on every resumption of the PS processor update_service_times takes  *)
(* delta = (now - prev_time) * f off every in-progress request, with       *)
(* f = min(1, w/c) for the count c in force during the interval,           *)
(* delta >= 0, and sets prev_time to now, so that calling it again at the  *)
(* same now subtracts zero.                                                *)

C4_Delta == RMul(RSub(now', ps.prevTime), SharingFactor(cores, ps.count))

C4_Update ==
    PSResumes =>
        /\ RLe(R(0), C4_Delta)
        /\ \A r \in Ids :
              IF r \in Range(ps.reqList)
              THEN reqs'[r].ServiceTime = RSub(reqs[r].ServiceTime, C4_Delta)
              ELSE reqs'[r] = reqs[r]
        /\ ps'.prevTime = now'
        /\ updateServiceTimes(reqs', ps', now').rq = reqs'

C4_UpdateServiceTimes == [][C4_Update]_vars

\* Requests that shared the processor: a remaining time that is no integer
C4_Witness ==
    /\ procType = 1
    /\ ps.count >= 2
    /\ \E r \in Range(ps.reqList) : reqs[r].ServiceTime[2] > 1

----------------------------------------------------------------------------
(* C5: under PS, in a run where the number of in-progress requests never   *)
(* exceeds the worker count, every request is terminated at exactly        *)
(* init_time + original_service_time: its delay is its original service    *)
(* time.                                                                   *)

----------------------------------------------------------------------------
(* C6: at every suspension point, under RTC, TS, SRPT-TS and PS, every     *)
(* request that is queued or in progress has                               *)
(* 0 <= service_time <= original_service_time, and original_service_time   *)
(* never changes after the request is created.                             *)

C6_Bounded(r) ==
    /\ RLe(R(0), reqs[r].ServiceTime)
    /\ RLe(reqs[r].ServiceTime, reqs[r].OriginalServiceTime)

----------------------------------------------------------------------------
(* C7: whenever an SRPT-TS processor takes a request from the priority     *)
(* queue, no queued request has a smaller remaining service time, and none *)
(* of equal remaining service time has a smaller init_time.                *)

C7_NotAfter(rq, r, x) ==
    /\ RLe(rq[r].ServiceTime, rq[x].ServiceTime)
    /\ rq[r].ServiceTime = rq[x].ServiceTime =>
          RLe(rq[r].InitTime, rq[x].InitTime)

C7_SrptDequeuesMinimum ==
    [][(procType = 3 /\ deqLog' # deqLog) =>
          /\ Len(deqLog') = Len(deqLog) + 1
          /\ \A x \in Range(queue') : C7_NotAfter(reqs', Last(deqLog'), x)]_vars

\* The request in service overtook an older request that is still queued
C7_Witness ==
    /\ procType = 3
    /\ \E p \in Procs, x \in Range(queue) :
          /\ held[p] # 0
          /\ held[p] = Last(deqLog)
          /\ x < held[p]
          /\ RLt(reqs[held[p]].ServiceTime, reqs[x].ServiceTime)

----------------------------------------------------------------------------
(* C8: each TerminateReq call appends exactly one record                   *)
(* (original_service_time, now - init_time) and leaves the earlier records *)
(* alone, so the number of records is the number of terminated requests.   *)

C8_Step ==
    \/ done' = done /\ items' = items
    \/ \E r \in Ids \ done :
          /\ done' = done \cup {r}
          /\ items' = Append(items, [ServiceTime |-> reqs'[r].OriginalServiceTime,
                                     Delay |-> RSub(now', reqs'[r].InitTime)])

C8_DrainAppendOnly == [][C8_Step /\ Len(items') = Cardinality(done')]_vars

\* A preempted request was terminated: its remaining time is not its original
C8_Witness ==
    /\ Len(items) >= 2
    /\ \E r \in done : reqs[r].ServiceTime # reqs[r].OriginalServiceTime
    /\ procType = 2

----------------------------------------------------------------------------
(* C9: for any sequence of Enqueue and Dequeue calls on the FIFO queue,    *)
(* elements leave in the order they entered, Len is the number of enqueues *)
(* minus the number of dequeues, and Dequeue on an empty queue panics      *)
(* instead of returning an element.                                        *)

C9_Call ==
    /\ IsPrefix(deqLog', enqLog')
    /\ QueueLen(queue') = Len(enqLog') - Len(deqLog')
    /\ created' = created + 1 =>
          ~panicked' /\ enqLog' = Append(enqLog, created') /\ deqLog' = deqLog
    /\ created' = created =>
          /\ enqLog' = enqLog
          /\ IF queue = <<>>
             THEN panicked' /\ deqLog' = deqLog
             ELSE ~panicked' /\ deqLog' = Append(deqLog, enqLog[Len(deqLog) + 1])

C9_FifoQueue == [][procType = 0 => C9_Call]_vars

\* Three elements were dequeued in turn and the next Dequeue found none
C9_Witness ==
    /\ procType = 0
    /\ wakeups = <<>>
    /\ panicked
    /\ Len(deqLog) >= 2
    /\ Len(deqLog) = Len(enqLog)

----------------------------------------------------------------------------
(* C10: Enqueue on the priority queue panics for an element that does not  *)
(* expose the comparison key and leaves the queue as it was; an element    *)
(* that exposes the key is accepted and the length grows by one.           *)

C10_Call ==
    created' = created + 1 =>
        IF ImplementsComparable(reqs'[created'])
        THEN /\ ~panicked'
             /\ PQueueLen(queue') = PQueueLen(queue) + 1
             /\ Range(queue') = Range(queue) \cup {created'}
        ELSE /\ panicked'
             /\ queue' = queue

C10_PQueueEnqueue == [][procType = 3 => C10_Call]_vars

\* A keyless element was refused by a queue that holds two elements
C10_Witness ==
    /\ procType = 3
    /\ wakeups = <<>>
    /\ panicked
    /\ Len(queue) = 2
    /\ created = 3
    /\ ~ImplementsComparable(reqs[created])

----------------------------------------------------------------------------
(* C11: at every suspension point of a run, in both topologies, every      *)
(* request created so far is in exactly one place: in one queue, with the  *)
(* one processor that is serving it (its local variable, or the PS         *)
(* in-progress list), or terminated at the drain; and a step that          *)
(* terminates a request terminates one that was not terminated before.     *)

\* Readers that the engine resumes with request r: r has left the queue and
\* is the return value of the reader's pending ReadInQueue
C11_Delivered(r) ==
    Cardinality({i \in DOMAIN wakeups :
                    wakeups[i].cause = "queue" /\ wakeups[i].req = r})

C11_Places(r) ==
    Occurrences(queue, r) + Occurrences(outq, r)
    + Cardinality({p \in Procs : held[p] = r}) + C11_Delivered(r)
    + Occurrences(ps.reqList, r)
    + (IF r \in done THEN 1 ELSE 0)

C11_TerminatesOnce ==
    items' # items =>
        /\ Len(items') = Len(items) + 1
        /\ \E r \in Ids \ done : done' = done \cup {r}

C11_SingleOwner ==
    [][/\ \A r \in Ids' : C11_Places(r)' = 1
       /\ Len(items') = Cardinality(done')
       /\ C11_TerminatesOnce]_vars

\* Bounded pipeline: one request waits in the output queue, one is served
\* by the second stage and one was terminated by the first
C11_Witness ==
    /\ topo = 2
    /\ outq # <<>>
    /\ held[2] # 0
    /\ pc[2] = "serve"
    /\ done # {}

----------------------------------------------------------------------------
(* C12: a dispatch is a processor arming the timer that ends a service     *)
(* slice.  RTC, TS and SRPT-TS arm it for the slice's service time plus    *)
(* ctx_cost, also when the slice ends in a preemption; PS arms it for      *)
(* curr.service_time / f and the bounded-buffer processors for             *)
(* factor * service_time, without ctx_cost.                                *)

\* Processor p has dispatched a request and its timer is pending
C12_Dispatched(p) ==
    \E i \in DOMAIN wakeups : wakeups[i].actor = p /\ wakeups[i].cause = "timer"

\* The virtual time the pending dispatch of p takes
C12_Duration(p) == RSub(Head(WakeupsOf(p)).time, since[p])

\* The service the pending dispatch of p gives
C12_Service(p) ==
    IF topo = 2
    THEN RMul(factor[p], reqs[held[p]].ServiceTime)
    ELSE IF procType = 1
         THEN RDiv(reqs[ps.curr].ServiceTime, SharingFactor(cores, ps.count))
         ELSE IF procType = 0 \/ pc[p] = "terminate"
              THEN reqs[held[p]].ServiceTime
              ELSE R(quantum)

C12_Charged(p) == RSub(C12_Duration(p), C12_Service(p))

\* The claim as stated: every policy charges ctx_cost on every dispatch
C12_AllPoliciesCharge ==
    \A p \in Procs : C12_Dispatched(p) => C12_Charged(p) = R(ctxCost)

C12_QueuePoliciesCharge ==
    \A p \in Procs :
        C12_Dispatched(p) =>
            C12_Charged(p) = IF topo = 0 /\ procType \in {0, 2, 3}
                             THEN R(ctxCost)
                             ELSE R(0)

\* With a context-switch cost configured, two requests share the PS
\* processor and its timer is pending
C12_Witness ==
    /\ topo = 0
    /\ procType = 1
    /\ ctxCost = 1
    /\ ps.count = 2
    /\ C12_Dispatched(1)

----------------------------------------------------------------------------
(* C13: the clock never goes back, it is set by the event loop to the time *)
(* of the wakeup it pops, and every value an actor derives from now()      *)
(* during the slice that follows (the init_time of a request it creates,   *)
(* the delay it records, the PS prev_time, the start of its next wait) is  *)
(* taken at that one clock value; no wakeup is pending for an earlier      *)
(* time.                                                                   *)

C13_ClockStep ==
    /\ RLe(now, now')
    /\ now' = Head(wakeups).time
    /\ \A i \in DOMAIN wakeups' : RLe(now', wakeups'[i].time)

C13_OneValuePerSlice ==
    /\ created' # created => reqs'[created'].InitTime = now'
    /\ items' # items =>
          \E r \in done' \ done :
              Last(items').Delay = RSub(now', reqs'[r].InitTime)
    /\ PSResumes => ps'.prevTime = now'
    /\ \A p \in Procs : since'[p] # since[p] => since'[p] = now'

C13_ClockMonotone == [][C13_ClockStep /\ C13_OneValuePerSlice]_vars

\* At one instant after time 0 the generator created a request and the PS
\* processor, resumed by it, updated its service times and had terminated
\* a request before
C13_Witness ==
    /\ topo = 0
    /\ procType = 1
    /\ RLt(R(0), now)
    /\ created >= 2
    /\ reqs[created].InitTime = now
    /\ ps.prevTime = now
    /\ created \in Range(ps.reqList)
    /\ items # <<>>

----------------------------------------------------------------------------
(* C14: the PS processor's wait_interruptible(d), called at time s, ends   *)
(* in exactly one way.  While it is suspended it has one pending timer at  *)
(* s + d when d >= 0 and none when d < 0.  It resumes either on the timer, *)
(* interrupted, without a request, at s + d; or on an arrival, not         *)
(* interrupted, with the request just written, at the instant of the       *)
(* write, which is no later than s + d when d >= 0.  The clock is at the   *)
(* resumption instant when it resumes.                                     *)

\* The PS processor is suspended in WaitInterruptible and nothing has
\* arrived for it yet
C14_Suspended == procType = 1 /\ blocked = <<1>>

C14_Armed ==
    C14_Suspended =>
        WakeupsOf(1) = IF RLe(R(0), ps.d)
                       THEN <<[time |-> RAdd(since[1], ps.d), actor |-> 1,
                               cause |-> "timer", req |-> 0]>>
                       ELSE <<>>

\* A write to q reaches the suspended PS processor at the instant of the write
C14_Arrival ==
    (C14_Suspended /\ enqLog' # enqLog) =>
        WakeupsOf(1)' = <<[time |-> now', actor |-> 1, cause |-> "queue",
                           req |-> Last(enqLog')]>>

C14_Elapsed == RSub(now', since[1])

\* The resumption; early(e, d) is the relation the claim puts between the
\* elapsed time and d on an arrival
C14_Resumption(early(_, _)) ==
    PSResumes =>
        LET w == Head(wakeups)
        IN  /\ now' = w.time
            /\ Len(WakeupsOf(1)) = 1
            /\ IF w.cause = "timer"
               THEN /\ w.req = 0
                    /\ RLe(R(0), ps.d)
                    /\ C14_Elapsed = ps.d
                    /\ queue = <<>>
               ELSE /\ w.cause = "queue"
                    /\ w.req \in Ids
                    /\ now' = reqs[w.req].InitTime
                    /\ RLe(R(0), C14_Elapsed)
                    /\ RLe(R(0), ps.d) => early(C14_Elapsed, ps.d)

\* The claim as stated: an arrival resumes the actor strictly before d
C14_ArrivalStrictlyEarly ==
    [][C14_Armed' /\ C14_Arrival /\ C14_Resumption(RLt)]_vars

C14_InterruptibleWait ==
    [][C14_Armed' /\ C14_Arrival /\ C14_Resumption(RLe)]_vars

\* The PS processor was resumed by an arrival strictly inside its timed wait
\* and is now suspended in the next one
C14_Witness ==
    /\ C14_Suspended
    /\ ps.count = 2
    /\ Last(ps.reqList) = created
    /\ reqs[created].InitTime = now
    /\ \E r \in Range(ps.reqList) :
          /\ RLt(R(0), reqs[r].ServiceTime)
          /\ RLt(reqs[r].ServiceTime, reqs[r].OriginalServiceTime)
          /\ r # created

----------------------------------------------------------------------------
(* C15: when its Wait is over the BoundedProcessor does exactly one of two *)
(* things with the request it served: if the output queue holds fewer than *)
(* bufSize requests it writes the request to the output queue and the      *)
(* drain gets nothing, otherwise it terminates the request at the drain    *)
(* and the output queue gets nothing.  The BoundedProcessor2 terminates    *)
(* every request it served and writes it to no queue.                      *)

\* Request r went to the output queue: it is its tail, or the reader that
\* was suspended on it resumes with r
C15_Forwarded(r) ==
    /\ done' = done /\ items' = items
    /\ IF outBlocked = <<>>
       THEN outq' = Append(outq, r)
       ELSE /\ outq' = outq
            /\ outBlocked' = Tail(outBlocked)
            /\ LET a == Head(outBlocked)
               IN  SelectSeq(wakeups', LAMBDA w : w.actor = a) =
                      <<[time |-> now', actor |-> a, cause |-> "queue", req |-> r]>>

C15_Terminated(r) ==
    /\ done' = done \cup {r}
    /\ items' = Append(items, [ServiceTime |-> reqs[r].OriginalServiceTime,
                               Delay |-> RSub(now', reqs[r].InitTime)])
    /\ r \notin Range(queue') \cup Range(outq')
    /\ \A i \in DOMAIN wakeups' : wakeups'[i].req # r

C15_First ==
    TimerFires(1) =>
        /\ held[1] \notin done
        /\ IF QueueLen(outq) < bufSize
           THEN C15_Forwarded(held[1])
           ELSE C15_Terminated(held[1]) /\ outq' = outq /\ outBlocked' = outBlocked

C15_Second ==
    TimerFires(2) =>
        /\ held[2] \notin done
        /\ C15_Terminated(held[2])
        /\ queue' = queue
        /\ outq' = IF outq = <<>> THEN outq ELSE Tail(outq)

C15_BoundedForwarding == [][C15_First /\ C15_Second]_vars

\* The output queue is at its bound of one and the first stage terminated a
\* request that arrived after the queued one
C15_Witness ==
    /\ topo = 2
    /\ bufSize = 1
    /\ Len(outq) = 1
    /\ \E r \in done : r > Head(outq)

----------------------------------------------------------------------------
(* C16: SRPT-TS with quantum 10; the generator writes A (service 100) and  *)
(* then B (service 1), both at time 0.  B is the first request terminated, *)
(* A the second and later one, and once no wakeup is pending both are      *)
(* terminated.  B is terminated no later than 11 + 2 * ctx_cost: the       *)
(* processor that took A at time 0 charges ctx_cost for A's first slice    *)
(* and again for B's.                                                      *)

C16_Scenario == procType = 3 /\ quantum = 10 /\ script = <<100, 1>>

\* B is terminated first, within limit; A after it
C16_Order(limit) ==
    /\ Len(items) >= 1 =>
          /\ 2 \in done
          /\ items[1].ServiceTime = R(1)
          /\ RLe(items[1].Delay, limit)
    /\ Len(items) >= 2 =>
          /\ items[2].ServiceTime = R(100)
          /\ RLt(items[1].Delay, items[2].Delay)
    /\ 1 \in done => Len(items) = 2
    /\ wakeups = <<>> => done = {1, 2}

\* The claim as stated: B is terminated by 11 + ctx_cost
C16_ShortFirstByEleven ==
    C16_Scenario => C16_Order(RAdd(R(11), R(ctxCost)))

C16_ShortFirst ==
    C16_Scenario => C16_Order(RAdd(R(11), R(2 * ctxCost)))

\* One processor, ctx_cost 1: B was terminated at 13 and A after it
C16_Witness ==
    /\ C16_Scenario
    /\ cores = 1
    /\ ctxCost = 1
    /\ done = {1, 2}
    /\ items[1].Delay = R(13)

----------------------------------------------------------------------------
(* C17: under TS with one processor, a request of service time S that is   *)
(* the only one of the run, with quantum q and context cost x, is taken by *)
(* the processor at the time it is created, is dispatched ceil(S/q) times  *)
(* and written back to the queue ceil(S/q) - 1 times, and is terminated    *)
(* S + ceil(S/q) * x after that first dispatch.                            *)

C17_Alone == procType = 2 /\ cores = 1 /\ Len(script) = 1

\* ceil(S / q) for the request of the run
C17_Slices == (script[1] + quantum - 1) \div quantum

C17_Dispatches == Occurrences(deqLog, 1)

\* Writes to the queue after the generator's
C17_Requeues == Occurrences(enqLog, 1) - 1

C17_SlicesOfLoneRequest ==
    C17_Alone =>
        /\ created = 1 =>
              /\ C17_Dispatches >= 1 /\ C17_Dispatches <= C17_Slices
              /\ C17_Requeues = C17_Dispatches - 1
              /\ reqs[1].InitTime = R(0)
        /\ done # {} =>
              /\ C17_Dispatches = C17_Slices
              /\ C17_Requeues = C17_Slices - 1
              /\ items = <<[ServiceTime |-> R(script[1]),
                            Delay |-> R(script[1] + C17_Slices * ctxCost)]>>
        /\ wakeups = <<>> => done = {1}

\* S = 25, q = 10, x = 1: three dispatches, two re-enqueues, terminated at 28
C17_Witness ==
    /\ C17_Alone
    /\ script = <<25>> /\ quantum = 10 /\ ctxCost = 1
    /\ done = {1}
    /\ C17_Dispatches = 3
    /\ C17_Requeues = 2
    /\ items[1].Delay = R(28)
    /\ now = R(28)

----------------------------------------------------------------------------
(* C18: under TS, at every suspension point, the time the processors have  *)
(* spent in finished waits, less the context cost of each, is the sum of   *)
(* original_service_time over the terminated requests plus, for every      *)
(* request still in flight, the part of its original service time that is  *)
(* no longer remaining.                                                    *)

RECURSIVE C18_Sum(_)
C18_Sum(q) == IF q = <<>> THEN R(0) ELSE RAdd(Head(q), C18_Sum(Tail(q)))

C18_Original(r) == reqs[r].OriginalServiceTime

C18_Remaining(r) == reqs[r].ServiceTime

\* The claim as stated: completed work plus the remaining work in flight
C18_ConsumedIsDonePlusRemaining ==
    procType = 2 =>
        consumed = C18_Sum([r \in Ids |-> IF r \in done THEN C18_Original(r)
                                                        ELSE C18_Remaining(r)])

C18_Conservation ==
    procType = 2 =>
        consumed = C18_Sum([r \in Ids |->
                               IF r \in done
                               THEN C18_Original(r)
                               ELSE RSub(C18_Original(r), C18_Remaining(r))])

\* One request is terminated, another was preempted and is still in flight
C18_Witness ==
    /\ procType = 2
    /\ ctxCost = 1
    /\ done # {}
    /\ \E r \in Ids \ done : RLt(C18_Remaining(r), C18_Original(r))

----------------------------------------------------------------------------
(* C19: SingleQueue called with a genType outside 0..5 selects no          *)
(* generator and panics at g.SetCreator: no actor is registered, the event *)
(* loop resumes nobody, the clock stays at 0, no request is created and    *)
(* the drain records nothing.  With a genType in 0..5 the run starts with  *)
(* every actor registered.                                                 *)

C19_NothingRan ==
    /\ panicked
    /\ wakeups = <<>> /\ blocked = <<>>
    /\ now = R(0)
    /\ created = 0 /\ reqs = <<>> /\ queue = <<>>
    /\ items = <<>> /\ done = {}

C19_UnknownGenType ==
    /\ genType \notin 0..5 => C19_NothingRan
    /\ (genType \in 0..5 /\ created = 0 /\ now = R(0)) =>
          /\ ~panicked
          /\ wakeups # <<>> \/ blocked # <<>>

\* genType 6 with the SRPT-TS processors asked for
C19_Witness ==
    /\ genType = 6
    /\ procType = 3
    /\ cores = 2
    /\ C19_NothingRan

----------------------------------------------------------------------------
(* C20: under PS, when the timer expires, after update_service_times the   *)
(* request curr has remaining service time exactly 0, it is the request    *)
(* terminated, and every other in-progress request has remaining service   *)
(* time >= 0; when a request arrives strictly before the predicted expiry  *)
(* no request is terminated at that resumption and the next timer is       *)
(* curr.service_time / f for the new count.                                *)

C20_AtExpiry ==
    PSTimerExpires =>
        /\ reqs'[ps.curr].ServiceTime = R(0)
        /\ done' = done \cup {ps.curr}
        /\ Len(items') = Len(items) + 1
        /\ \A r \in Range(ps.reqList) : RLe(R(0), reqs'[r].ServiceTime)

\* The arrival comes strictly before the expiry the pending timer predicts
C20_Early ==
    /\ PSArrival
    /\ RLe(R(0), ps.d) => RLt(Head(wakeups).time, RAdd(since[1], ps.d))

C20_OnEarlyArrival ==
    C20_Early =>
        /\ done' = done /\ items' = items
        /\ ps'.count = ps.count + 1
        /\ ps'.d = RDiv(reqs'[ps'.curr].ServiceTime,
                        getFactor(cores, ps.count + 1))
        /\ WakeupsOf(1)' = <<[time |-> RAdd(now', ps'.d), actor |-> 1,
                              cause |-> "timer", req |-> 0]>>

C20_PSExpiry == [][C20_AtExpiry /\ C20_OnEarlyArrival]_vars

----------------------------------------------------------------------------
(* C21: each bounded-buffer processor waits multiplier * service_time for  *)
(* every request it serves; the multiplier is 2 or 1 and is selected by    *)
(* that request's own color tag (color 1 is slow in BoundedProcessor,      *)
(* color 0 in BoundedProcessor2), never by a request served before.        *)

\* The color that processor p serves slowly
C21_SlowColor(p) == IF p = 1 THEN 1 ELSE 0

\* The wait processor p has armed for the request it holds
C21_Wait(p) == RSub(Head(WakeupsOf(p)).time, since[p])

C21_Serving(p) ==
    /\ topo = 2
    /\ held[p] # 0
    /\ \E i \in DOMAIN wakeups : wakeups[i].actor = p /\ wakeups[i].cause = "timer"

----------------------------------------------------------------------------
(* C22: for a non-empty set of delay samples, each percentile p the        *)
(* histogram drain computes is interpolated inside the bucket i that       *)
(* contains the rank p * count, so the value it reports lies in that       *)
(* bucket's range [i * granularity, (i + 1) * granularity].                *)

\* The number of samples in the buckets 0..i
RECURSIVE C22_Accum(_, _)
C22_Accum(h, i) == IF i < 0 THEN 0 ELSE C22_Accum(h, i - 1) + h.buckets[i]

\* The bucket that contains the rank of percentile pi
C22_Bucket(h, pi) ==
    CHOOSE i \in DOMAIN h.buckets :
        /\ RLt(Rank(h, pi), R(C22_Accum(h, i)))
        /\ RLe(R(C22_Accum(h, i - 1)), Rank(h, pi))

C22_Returned ==
    /\ report.kind = "BookKeeper"
    /\ report.count > 0
    /\ ~report.panic

C22_InTargetBucket ==
    C22_Returned =>
        \A pi \in DOMAIN percentiles :
            /\ pi \in DOMAIN report.percentiles
            /\ LET i == C22_Bucket(hdr, pi)
                   v == report.percentiles[pi]
               IN  /\ RLe(RMul(hdr.granularity, R(i)), v)
                   /\ RLe(v, RMul(hdr.granularity, R(i + 1)))

----------------------------------------------------------------------------
(* C23: the standard deviation the AllKeeper drain reports is the          *)
(* population standard deviation of the recorded delays, the square root   *)
(* of the mean of the squared delays minus the square of the mean delay,   *)
(* and each delay percentile p it reports is the recorded delay at index   *)
(* min(floor(n * p), n - 1) of the sorted delays.                          *)

C23_Reported ==
    /\ report.kind = "AllKeeper"
    /\ report.count > 0

C23_Mean == RDiv(SumDelay(items, R(0)), R(Len(items)))

C23_MeanOfSquares == RDiv(SumSquareDelay(items, R(0)), R(Len(items)))

C23_Variance == RSub(C23_MeanOfSquares, RMul(C23_Mean, C23_Mean))

\* d is the delay at index k (from 0) of the delays in ascending order
C23_AtSortedIndex(d, k) ==
    /\ \E j \in DOMAIN items : items[j].Delay = d
    /\ Cardinality({j \in DOMAIN items : RLt(items[j].Delay, d)}) <= k
    /\ k < Cardinality({j \in DOMAIN items : RLe(items[j].Delay, d)})

C23_Index(pi) ==
    LET n == Len(items)
        f == (n * percentiles[pi][1]) \div percentiles[pi][2]
    IN  IF f < n - 1 THEN f ELSE n - 1

C23_StdIsPopulationStd ==
    C23_Reported =>
        /\ ~report.std.nan
        /\ report.std.sqrt = C23_Variance

C23_PercentilesBySortedIndex ==
    C23_Reported =>
        \A pi \in DOMAIN percentiles :
            C23_AtSortedIndex(report.percentiles[pi], C23_Index(pi))

C23_AllKeeperStatistics ==
    /\ C23_StdIsPopulationStd
    /\ C23_PercentilesBySortedIndex

----------------------------------------------------------------------------
(* C24: at every suspension point of the PS processor its counter c is the *)
(* number of requests in the in-progress list, the armed timer is finite   *)
(* exactly when the list is non-empty, and whenever the timer is finite    *)
(* curr is a request of the list with the minimum remaining service time.  *)

\* Every state is one between two slices: the PS processor, when there is
\* one, is suspended in WaitInterruptible or about to take its first slice
C24_Suspended == topo = 0 /\ procType = 1

\* The wait of the PS processor is armed with a timer
C24_TimerFinite == RLe(R(0), ps.d)

C24_CountIsLength == ps.count = Len(ps.reqList)

C24_TimerIffBusy == C24_TimerFinite <=> ps.reqList # <<>>

C24_CurrIsMinimum ==
    C24_TimerFinite =>
        /\ ps.curr \in Range(ps.reqList)
        /\ \A r \in Range(ps.reqList) :
              RLe(reqs[ps.curr].ServiceTime, reqs[r].ServiceTime)

C24_PSBookkeeping ==
    C24_Suspended =>
        /\ C24_CountIsLength
        /\ C24_TimerIffBusy
        /\ C24_CurrIsMinimum

----------------------------------------------------------------------------
(* C25: in the single-queue topology with procType = 3 every request the   *)
(* generator writes, created by SimpleReqCreator, exposes the comparison    *)
(* key the priority queue requires, so no enqueue by the generator and no   *)
(* re-enqueue by an SRPT-TS processor raises the priority queue's panic.    *)

\* A run of the single-queue topology under SRPT-TS whose generator exists
C25_SrptRun ==
    /\ topo = 0
    /\ procType = 3
    /\ creator = "SimpleReqCreator"
    /\ GeneratorSelected(genType)

----------------------------------------------------------------------------
(* C26: when BoundedProcessor instances with the same bound are the only   *)
(* writers of a downstream queue that starts empty, the length of that     *)
(* queue never exceeds the bound, however many they are and however their  *)
(* slices interleave.                                                      *)

C26_WithinBound == topo = 2 => QueueLen(outq) <= bufSize

\* A write to the downstream queue is made by a BoundedProcessor whose
\* Wait ended, at a length below the bound
C26_WriteBelowBound ==
    (topo = 2 /\ QueueLen(outq') > QueueLen(outq)) =>
        /\ \E p \in Writers : TimerFires(p)
        /\ QueueLen(outq) < bufSize

C26_BoundHolds == [](C26_WithinBound) /\ [][C26_WriteBelowBound]_vars

\* Two BoundedProcessor instances feed the downstream queue, it is at its
\* bound of one, and a request served after the queued one found it full
C26_Witness ==
    /\ topo = 2
    /\ cores = 3
    /\ bufSize = 1
    /\ QueueLen(outq) = 1
    /\ \E r \in done : r > Head(outq)

----------------------------------------------------------------------------
(* C27: with quantum > 0, finitely many arrivals of positive service time  *)
(* and no limit on the run's duration, every request written to the queue  *)
(* of TS or SRPT-TS processors is eventually terminated, whatever the      *)
(* number of processors that share the queue: none is re-enqueued for ever *)
(* and none starves.                                                       *)

C27_TimeSharingRun ==
    /\ topo = 0
    /\ procType \in {2, 3}
    /\ quantum > 0

\* Every request created so far is terminated and the generator is done
C27_AllTerminated == created = MaxReqs /\ done = Ids

\* Processor p is resumed at the end of a slice that did not finish its request
C27_Preempted(p) ==
    /\ Resumed(p)
    /\ Head(wakeups).cause = "timer"
    /\ pc[p] = "preempt"

\* A preemption leaves the request strictly less, and still some, work
C27_PreemptionReduces ==
    \A p \in Procs :
        C27_TimeSharingRun /\ C27_Preempted(p) =>
            LET r == held[p]
            IN  /\ RLt(reqs'[r].ServiceTime, reqs[r].ServiceTime)
                /\ RLt(R(0), reqs'[r].ServiceTime)

C27_EventuallyTerminated ==
    /\ <>[](C27_TimeSharingRun => C27_AllTerminated)
    /\ [][C27_PreemptionReduces]_vars

\* Two processors share the queue and a request that was preempted and
\* re-enqueued is terminated
C27_Witness ==
    /\ C27_TimeSharingRun
    /\ cores = 2
    /\ \E i \in DOMAIN items :
          RLt(R(quantum), items[i].ServiceTime)
    /\ C27_AllTerminated

----------------------------------------------------------------------------
(* C28: for every non-empty set of samples added to the histogram, the    *)
(* case where all of them fall into one bucket included, getPercentiles    *)
(* ends without a runtime failure and returns a value for each of the four *)
(* percentiles 0.5, 0.9, 0.95 and 0.99.                                    *)

\* BookKeeper.PrintStats has called getPercentiles on a non-empty histogram
C28_Reported == report.kind = "BookKeeper" /\ report.count > 0

C28_NoRuntimeFailure ==
    C28_Reported =>
        /\ ~report.panic
        /\ DOMAIN report.percentiles = DOMAIN percentiles

====
